---- MODULE Spec2Model ----
(***************************************************************************)
(* Model of ParticleSwarmSynth/Effects.py: the oscillator bank, the ADSR   *)
(* and filter-sweep envelopes and the effects chain (low/high-pass,        *)
(* equalizer, compressor, distortion, reverb).                             *)
(*                                                                         *)
(* Numbers.  The program computes in float64.  The model computes in exact *)
(* rationals <<n, d>> (d > 0, lowest terms).  Three irrational quantities  *)
(* are tabulated or approximated, each at the definition that does it:     *)
(* sin/cos (exact, on quarter turns only), 10^(gain/40) (exact, gain       *)
(* counted in steps of 40*log10(2) dB) and sqrt(2) in the Butterworth      *)
(* design (3/2); tanh is replaced by an algebraic sigmoid.                 *)
(*                                                                         *)
(* Buffers are sequences of rationals.  A call on the caller's buffer is   *)
(* one action: it records the buffer as passed (before), the buffer the    *)
(* caller holds afterwards (audio; reverb writes into it), and either the  *)
(* returned buffer (pc = "returned") or the exception (pc = "raised").     *)
(***************************************************************************)
EXTENDS Integers, Sequences, FiniteSets, TLC

\* ------------------------------------------------------------------ bounds
\* longest caller buffer
MaxLen == 3
\* longest chain of stage calls in the pipeline specification
MaxCalls == 2
\* largest common denominator of a buffer that is passed on along the chain
\* (TLC's integers are 32 bits wide; this keeps the exact arithmetic of the
\* next stage in range)
MaxCommonDen == 2401

\* ------------------------------------------------------- exact rationals
Abs(x) == IF x < 0 THEN -x ELSE x

Min(x, y) == IF x <= y THEN x ELSE y

Max(x, y) == IF x >= y THEN x ELSE y

RECURSIVE GCD(_, _)
GCD(x, y) == IF y = 0 THEN x ELSE GCD(y, x % y)

\* the rational n/d (d # 0) in lowest terms with a positive denominator
Norm(n, d) ==
  LET g == GCD(Abs(n), Abs(d))
      s == IF d < 0 THEN -1 ELSE 1
  IN  << (s * n) \div g, Abs(d) \div g >>

R(n) == << n, 1 >>

Zero == << 0, 1 >>

One == << 1, 1 >>

Half == << 1, 2 >>

RNeg(p) == << -p[1], p[2] >>

RAdd(p, q) ==
  LET g == GCD(p[2], q[2])
  IN  Norm(p[1] * (q[2] \div g) + q[1] * (p[2] \div g), (p[2] \div g) * q[2])

RSub(p, q) == RAdd(p, RNeg(q))

RMul(p, q) ==
  LET g1 == GCD(Abs(p[1]), q[2])
      g2 == GCD(Abs(q[1]), p[2])
  IN  IF p[1] = 0 \/ q[1] = 0 THEN Zero
      ELSE << (p[1] \div g1) * (q[1] \div g2), (p[2] \div g2) * (q[2] \div g1) >>

\* p / q, for q # 0
RDiv(p, q) == RMul(p, Norm(q[2], q[1]))

RLt(p, q) == p[1] * q[2] < q[1] * p[2]

RLe(p, q) == p[1] * q[2] <= q[1] * p[2]

RAbs(p) == << Abs(p[1]), p[2] >>

\* floor of a rational
Floor(p) == IF p[1] >= 0 THEN p[1] \div p[2] ELSE -((-p[1] + p[2] - 1) \div p[2])

\* Python int(): truncation toward zero
PyInt(p) == IF p[1] >= 0 THEN p[1] \div p[2] ELSE -((-p[1]) \div p[2])

\* int(np.round(x)): round half to even
NpRound(p) ==
  LET f == Floor(p)
      r == RSub(p, R(f))
  IN  IF RLt(r, Half) THEN f
      ELSE IF RLt(Half, r) THEN f + 1
      ELSE IF f % 2 = 0 THEN f ELSE f + 1

\* ------------------------------------------------------ numpy on buffers
Zeros(n) == [i \in 1..n |-> Zero]

\* np.linspace(start, stop, num, endpoint), for num >= 0
Linspace(start, stop, num, endpoint) ==
  LET div == IF endpoint THEN num - 1 ELSE num
  IN  [i \in 1..num |->
         IF div <= 0 THEN start
         ELSE IF endpoint /\ i = num THEN stop
         ELSE RAdd(start, RDiv(RMul(R(i - 1), RSub(stop, start)), R(div)))]

\* a Python slice bound on a sequence of n elements
PyBound(i, n) == IF i < 0 THEN Max(i + n, 0) ELSE Min(i, n)

\* number of elements of x[lo:hi] on n elements
SliceLen(lo, hi, n) == Max(PyBound(hi, n) - PyBound(lo, n), 0)

\* x[lo:hi] = vals is accepted when vals has the slice's length, or one
\* element (broadcast)
CanAssign(lo, hi, n, vals) == Len(vals) = SliceLen(lo, hi, n) \/ Len(vals) = 1

\* x[lo:hi] = vals, when CanAssign
AssignSlice(x, lo, hi, vals) ==
  LET n == Len(x)
      l == PyBound(lo, n)
      h == PyBound(hi, n)
  IN  [i \in 1..n |->
         IF l < i /\ i <= h
         THEN (IF Len(vals) = 1 THEN vals[1] ELSE vals[i - l])
         ELSE x[i]]

\* x[lo:hi] = scalar
FillSlice(x, lo, hi, v) ==
  LET n == Len(x)
      l == PyBound(lo, n)
      h == PyBound(hi, n)
  IN  [i \in 1..n |-> IF l < i /\ i <= h THEN v ELSE x[i]]

\* pointwise product of two buffers of one length
BufMul(x, y) == [i \in 1..Len(x) |-> RMul(x[i], y[i])]

\* buffer times scalar
BufScale(x, k) == [i \in 1..Len(x) |-> RMul(x[i], k)]

\* ------------------------------------------------------------------ state
VARIABLES
  audio,    \* the buffer the caller holds
  pc,       \* "ready" | "returned" | "raised"
  op,       \* name of the last function called ("" before the first)
  args,     \* its arguments, a record
  before,   \* the caller's buffer as it was when the call started
  result,   \* the returned buffer (<<>> when the call raised)
  exc,      \* the exception raised ("" when the call returned)
  locals,   \* local variables of the call that the claims refer to
  calls,    \* number of calls made in the chain so far
  chain0    \* the buffer at the start of the chain

vars == << audio, pc, op, args, before, result, exc, locals, calls, chain0 >>

Samples == { Zero, One }

RECURSIVE SeqsUpTo(_, _)
SeqsUpTo(S, n) ==
  IF n = 0 THEN { << >> }
  ELSE LET T == SeqsUpTo(S, n - 1)
       IN  T \cup { Append(t, s) : t \in { u \in T : Len(u) = n - 1 }, s \in S }

Buffers == SeqsUpTo(Samples, MaxLen)

NoArgs == [none |-> TRUE]

Init ==
  /\ audio \in Buffers
  /\ pc = "ready"
  /\ op = ""
  /\ args = NoArgs
  /\ before = audio
  /\ result = << >>
  /\ exc = ""
  /\ locals = NoArgs
  /\ calls = 0
  /\ chain0 = audio

\* outcome of a call: the returned buffer or the exception, what the call
\* left in the caller's buffer, and the locals of interest
Return(buf, heldAfter, loc) ==
  [exc |-> "", buf |-> buf, loc |-> loc, ok |-> TRUE, held |-> heldAfter]

Raise(e, heldAfter, loc) ==
  [exc |-> e, buf |-> << >>, loc |-> loc, ok |-> FALSE, held |-> heldAfter]

\* the state change common to every call of a stage on the caller's buffer
Call(name, a, out) ==
  /\ pc = "ready"
  /\ calls < MaxCalls
  /\ op' = name
  /\ args' = a
  /\ before' = audio
  /\ audio' = out.held
  /\ result' = out.buf
  /\ exc' = out.exc
  /\ locals' = out.loc
  /\ pc' = IF out.ok THEN "returned" ELSE "raised"
  /\ calls' = calls + 1
  /\ UNCHANGED chain0

\* the samples x[i..] have, with l, a common denominator of at most cap
RECURSIVE DenWithin(_, _, _, _)
DenWithin(x, i, l, cap) ==
  IF i > Len(x) THEN TRUE
  ELSE IF x[i][2] > cap THEN FALSE
  ELSE LET m == (l \div GCD(l, x[i][2])) * x[i][2]
       IN  IF m > cap THEN FALSE ELSE DenWithin(x, i + 1, m, cap)

\* the caller passes the returned buffer on to the next stage
Feed ==
  /\ pc = "returned"
  /\ calls < MaxCalls
  /\ DenWithin(result, 1, 1, MaxCommonDen)
  /\ audio' = result
  /\ before' = result
  /\ pc' = "ready"
  /\ op' = ""
  /\ args' = NoArgs
  /\ result' = << >>
  /\ exc' = ""
  /\ locals' = NoArgs
  /\ UNCHANGED << calls, chain0 >>

\* ------------------------------------------------------- adsr_envelope
\* the clamp left out
NoClamp(samples, maxSamples) == samples

\* line 101-102: the attack/decay clamp
Clamp(samples, maxSamples) == Min(samples, maxSamples)

adsr_envelope(buf, length, sr, attack, decay, sustain, release, on) ==
  IF ~on THEN Return(buf, buf, [on |-> FALSE])
  ELSE
    LET total_samples == Len(buf)
        max_attack_samples == NpRound(RDiv(RMul(length, sr), R(4)))
        max_decay_samples == NpRound(RDiv(RMul(length, sr), R(4)))
        attack0 == NpRound(RMul(attack, sr))
        decay0 == NpRound(RMul(decay, sr))
        release_samples == NpRound(RMul(release, sr))
        sustain_samples == total_samples - attack0 - decay0 - release_samples
        attack_samples == Clamp(attack0, max_attack_samples)
        decay_samples == Clamp(decay0, max_decay_samples)
        loc == [on |-> TRUE,
                total_samples |-> total_samples,
                max_attack_samples |-> max_attack_samples,
                max_decay_samples |-> max_decay_samples,
                release_samples |-> release_samples,
                sustain_samples |-> sustain_samples,
                attack_samples |-> attack_samples,
                decay_samples |-> decay_samples]
        e0 == Zeros(total_samples)
        attack_values == Linspace(Zero, One, attack_samples, FALSE)
        e1 == AssignSlice(e0, 0, attack_samples, attack_values)
        decay_values == Linspace(One, sustain, decay_samples, FALSE)
        e2 == AssignSlice(e1, attack_samples, attack_samples + decay_samples,
                          decay_values)
        e3 == FillSlice(e2, attack_samples + decay_samples,
                        total_samples - release_samples, sustain)
        release_values == Linspace(sustain, Zero, release_samples, TRUE)
        \* envelope[-release_samples:]; -0 is 0, the whole buffer
        e4 == AssignSlice(e3, -release_samples, total_samples, release_values)
    IN  IF attack_samples < 0 THEN Raise("ValueError", buf, loc)
        ELSE IF ~CanAssign(0, attack_samples, total_samples, attack_values)
          THEN Raise("ValueError", buf, loc)
        ELSE IF decay_samples < 0 THEN Raise("ValueError", buf, loc)
        ELSE IF ~CanAssign(attack_samples, attack_samples + decay_samples,
                           total_samples, decay_values)
          THEN Raise("ValueError", buf, loc)
        ELSE IF release_samples < 0 THEN Raise("ValueError", buf, loc)
        ELSE IF ~CanAssign(-release_samples, total_samples, total_samples,
                           release_values)
          THEN Raise("ValueError", buf, loc)
        ELSE Return(BufMul(buf, e4), buf, loc)

AdsrEnvelope(length, sr, attack, decay, sustain, release, on) ==
  Call("adsr_envelope",
       [length |-> length, sr |-> sr, attack |-> attack, decay |-> decay,
        sustain |-> sustain, release |-> release, on |-> on],
       adsr_envelope(audio, length, sr, attack, decay, sustain, release, on))

\* ------------------------------------------------------ scipy.signal
\* lfilter(b, a, x) for three-tap b and a, zero initial state, a[1] # 0:
\* y[n] = (b0 x[n] + b1 x[n-1] + b2 x[n-2] - a1 y[n-1] - a2 y[n-2]) / a0
RECURSIVE LfilterFrom(_, _, _, _)
LfilterFrom(b, a, x, y) ==
  IF Len(y) = Len(x) THEN y
  ELSE
    LET n == Len(y) + 1
        xAt(k) == IF k >= 1 THEN x[k] ELSE Zero
        yAt(k) == IF k >= 1 THEN y[k] ELSE Zero
        ff == RAdd(RMul(b[1], xAt(n)),
                   RAdd(RMul(b[2], xAt(n - 1)), RMul(b[3], xAt(n - 2))))
        fb == RAdd(RMul(a[2], yAt(n - 1)), RMul(a[3], yAt(n - 2)))
    IN  LfilterFrom(b, a, x, Append(y, RDiv(RSub(ff, fb), a[1])))

lfilter(b, a, x) == LfilterFrom(b, a, x, << >>)

\* sqrt(2), approximated by 3/2
Sqrt2 == << 3, 2 >>

\* tan(pi * Wn / 2) at the normalised cutoffs the model uses; 1 at Wn = 1/2
\* is exact, sqrt(2) - 1 at 1/4 and sqrt(2) + 1 at 3/4 use Sqrt2
TanHalfPi(Wn) ==
  CASE Wn = << 1, 2 >> -> One
    [] Wn = << 1, 4 >> -> RSub(Sqrt2, One)
    [] Wn = << 3, 4 >> -> RAdd(Sqrt2, One)

\* butter accepts a digital critical frequency only inside (0, 1)
ButterOk(Wn) == RLt(Zero, Wn) /\ RLt(Wn, One)

\* butter(2, Wn, btype, analog=False, output='ba'): the bilinear transform
\* of the second-order Butterworth prototype, a[0] normalised to 1
butter(Wn, btype) ==
  LET K == TanHalfPi(Wn)
      K2 == RMul(K, K)
      den == RAdd(One, RAdd(RMul(Sqrt2, K), K2))
      a1 == RDiv(RMul(R(2), RSub(K2, One)), den)
      a2 == RDiv(RAdd(RSub(One, RMul(Sqrt2, K)), K2), den)
      g == IF btype = "low" THEN RDiv(K2, den) ELSE RDiv(One, den)
      b1 == IF btype = "low" THEN RMul(R(2), g) ELSE RMul(R(-2), g)
  IN  [a |-> << One, a1, a2 >>, b |-> << g, b1, g >>]

\* largest absolute value of a non-empty buffer
RECURSIVE MaxAbsFrom(_, _, _)
MaxAbsFrom(x, i, m) ==
  IF i > Len(x) THEN m
  ELSE MaxAbsFrom(x, i + 1, IF RLt(m, RAbs(x[i])) THEN RAbs(x[i]) ELSE m)

MaxAbs(x) == MaxAbsFrom(x, 1, Zero)

\* ------------------------------------------------------ filter_envelope
\* (the model's domain keeps freq_start # 0, so the peak of the smoothed
\* ramp is never 0 and the normalisation never produces nan)
filter_envelope(buf, length, sr, freq_cutoff, freq_start, freq_end, on) ==
  IF ~on THEN Return(buf, buf, [on |-> FALSE])
  ELSE
    LET total_samples == Len(buf)
        envelope == Linspace(freq_start, freq_end, total_samples, TRUE)
        Wn == RDiv(freq_cutoff, RDiv(sr, R(2)))
        ba == butter(Wn, "low")
        filtered == lfilter(ba.b, ba.a, envelope)
        peak == MaxAbs(filtered)
        normalized == [i \in 1..total_samples |-> RDiv(filtered[i], peak)]
    IN  IF sr = Zero THEN Raise("ZeroDivisionError", buf, [on |-> TRUE])
        ELSE IF ~ButterOk(Wn) THEN Raise("ValueError", buf, [on |-> TRUE])
        ELSE IF total_samples = 0 THEN Raise("ValueError", buf, [on |-> TRUE])
        ELSE Return(BufMul(buf, normalized), buf, [on |-> TRUE])

FilterEnvelope(length, sr, freq_cutoff, freq_start, freq_end, on) ==
  Call("filter_envelope",
       [length |-> length, sr |-> sr, on |-> on, freq_cutoff |-> freq_cutoff,
        freq_start |-> freq_start, freq_end |-> freq_end],
       filter_envelope(audio, length, sr, freq_cutoff, freq_start, freq_end, on))

\* --------------------------------------- lowpass_filter, highpass_filter
\* the body the two filters share; btype is "low" or "high"
butter_filter(buf, cutoff, resonance, sr, on, btype) ==
  IF ~on THEN Return(buf, buf, [on |-> FALSE])
  ELSE
    LET nyq == RMul(Half, sr)
        normalized_cutoff == RDiv(cutoff, nyq)
        ba == butter(normalized_cutoff, btype)
        filtered_audio == lfilter(ba.b, ba.a, buf)
    IN  IF nyq = Zero THEN Raise("ZeroDivisionError", buf, [on |-> TRUE])
        ELSE IF ~ButterOk(normalized_cutoff)
          THEN Raise("ValueError", buf, [on |-> TRUE])
        ELSE Return(BufScale(filtered_audio, resonance), buf, [on |-> TRUE])

lowpass_filter(buf, cutoff, resonance, sr, on) ==
  butter_filter(buf, cutoff, resonance, sr, on, "low")

highpass_filter(buf, cutoff, resonance, sr, on) ==
  butter_filter(buf, cutoff, resonance, sr, on, "high")

LowpassFilter(cutoff, resonance, sr, on) ==
  Call("lowpass_filter",
       [sr |-> sr, on |-> on, cutoff |-> cutoff, resonance |-> resonance],
       lowpass_filter(audio, cutoff, resonance, sr, on))

HighpassFilter(cutoff, resonance, sr, on) ==
  Call("highpass_filter",
       [sr |-> sr, on |-> on, cutoff |-> cutoff, resonance |-> resonance],
       highpass_filter(audio, cutoff, resonance, sr, on))

\* ------------------------------------------------------------ compressor
\* mean of the squares of a non-empty buffer
RECURSIVE SumSqFrom(_, _)
SumSqFrom(x, i) ==
  IF i > Len(x) THEN Zero ELSE RAdd(RMul(x[i], x[i]), SumSqFrom(x, i + 1))

MeanSquare(x) == RDiv(SumSqFrom(x, 1), R(Len(x)))

\* rms > threshold, rms = sqrt(mean(audio**2)); on an empty buffer the mean
\* is nan and the comparison is False
RmsExceeds(x, threshold) ==
  /\ Len(x) > 0
  /\ \/ RLt(threshold, Zero)
     \/ RLt(RMul(threshold, threshold), MeanSquare(x))

\* square root of a rational that is a square
ISqrt(n) == CHOOSE k \in 0..n : k * k = n

RSqrt(q) == << ISqrt(q[1]), ISqrt(q[2]) >>

\* line 174, with eps = np.finfo(float).eps = 2^-52
gain_reduction(rms, threshold, ratio) ==
  RDiv(RSub(rms, threshold),
       RAdd(RSub(RMul(rms, ratio), threshold), << 1, 2^52 >>))

\* Python binds the positional arguments of a call to adsr_envelope; the
\* function has eight required parameters
call_adsr_envelope(argv, held) ==
  IF Len(argv) # 8 THEN Raise("TypeError", held, [on |-> TRUE])
  ELSE adsr_envelope(argv[1], argv[2], argv[3], argv[4], argv[5], argv[6],
                     argv[7], argv[8])

compressor(buf, threshold, ratio, attack, release, on) ==
  IF ~on THEN Return(buf, buf, [on |-> FALSE])
  ELSE IF ~RmsExceeds(buf, threshold)
    THEN Return(buf, buf, [on |-> TRUE, exceeds |-> FALSE])
  ELSE
    LET loc == [on |-> TRUE, exceeds |-> TRUE]
        \* line 173: six positional arguments
        env == call_adsr_envelope(
                 << Len(buf), R(44100), attack, Zero, One, release >>, buf)
        rms == RSqrt(MeanSquare(buf))
        gr == gain_reduction(rms, threshold, ratio)
    IN  IF ~env.ok THEN Raise(env.exc, buf, loc)
        ELSE Return([i \in 1..Len(buf) |->
                       RMul(buf[i], RSub(One, RMul(env.buf[i], gr)))],
                    buf, loc)

Compressor(threshold, ratio, attack, release, on) ==
  Call("compressor",
       [attack |-> attack, release |-> release, on |-> on,
        threshold |-> threshold, ratio |-> ratio],
       compressor(audio, threshold, ratio, attack, release, on))

\* ---------------------------------------------------------------- reverb
\* x[i] on n elements is an IndexError outside -n .. n-1
IndexOk(i, n) == -n <= i /\ i < n

\* the 1-based position of x[i], negative i counting from the end
Pos(i, n) == IF i < 0 THEN i + n + 1 ELSE i + 1

\* the tap without the decay factor
TapUnscaled(line, i, decay) == line[Pos(i, Len(line))]

\* line 192: the tap read back from the delay line, scaled
Tap(line, i, decay) == RMul(line[Pos(i, Len(line))], decay)

\* returning the delay line instead of the caller's array
ReturnLine(line, aud) == line

\* line 199: return audio
reverb_return(line, aud) == aud

\* lines 190-198 from iteration i on; line is the delay buffer, aud the
\* caller's array, written in place
RECURSIVE reverb_loop(_, _, _, _, _, _)
reverb_loop(line, aud, i, delay_samples, decay, loc) ==
  IF i = Len(aud) THEN Return(reverb_return(line, aud), aud, loc)
  ELSE IF ~IndexOk(i, Len(line)) THEN Raise("IndexError", aud, loc)
  ELSE IF ~IndexOk(i + delay_samples, Len(line))
    THEN Raise("IndexError", aud, loc)
  ELSE
    LET delayed == Tap(line, i, decay)
        l1 == [line EXCEPT ![Pos(i + delay_samples, Len(line))] =
                 RAdd(@, aud[i + 1])]
        l2 == [l1 EXCEPT ![Pos(i, Len(line))] = RAdd(@, delayed)]
        a1 == [aud EXCEPT ![i + 1] = RAdd(@, delayed)]
    IN  reverb_loop(l2, a1, i + 1, delay_samples, decay, loc)

reverb(buf, sr, delay, decay, on) ==
  IF ~on THEN Return(buf, buf, [on |-> FALSE])
  ELSE
    LET delay_samples == PyInt(RMul(delay, sr))
        loc == [on |-> TRUE, delay_samples |-> delay_samples]
    IN  IF delay_samples + Len(buf) < 0 THEN Raise("ValueError", buf, loc)
        ELSE reverb_loop(Zeros(delay_samples + Len(buf)), buf, 0,
                         delay_samples, decay, loc)

Reverb(sr, delay, decay, on) ==
  Call("reverb",
       [sr |-> sr, decay |-> decay, on |-> on, delay |-> delay],
       reverb(audio, sr, delay, decay, on))

\* ------------------------------------------------------------ distortion
\* np.tanh, replaced by the algebraic sigmoid x / (1 + |x|): odd,
\* increasing, inside (-1, 1), 0 at 0
tanh(x) == RDiv(x, RAdd(One, RAbs(x)))

\* (the model's domain keeps threshold # 0: a zero threshold yields inf and
\* nan samples, not an exception)
distortion(buf, threshold, on) ==
  IF ~on THEN Return(buf, buf, [on |-> FALSE])
  ELSE Return([i \in 1..Len(buf) |->
                 RMul(tanh(RDiv(buf[i], threshold)), threshold)],
              buf, [on |-> TRUE])

Distortion(threshold, on) ==
  Call("distortion", [on |-> on, threshold |-> threshold],
       distortion(audio, threshold, on))

\* ------------------------------------------------------------- equalizer
\* np.sin(2*pi*t) and np.cos(2*pi*t), t in turns; tabulated (exactly) on
\* whole numbers of quarter turns, which is where the model evaluates them
SinTurn(t) ==
  LET q == RMul(R(4), t)
  IN  CASE q[2] = 1 /\ q[1] % 4 = 0 -> Zero
        [] q[2] = 1 /\ q[1] % 4 = 1 -> One
        [] q[2] = 1 /\ q[1] % 4 = 2 -> Zero
        [] q[2] = 1 /\ q[1] % 4 = 3 -> R(-1)

CosTurn(t) == SinTurn(RAdd(t, << 1, 4 >>))

\* A = 10**(gain / 40).  The model counts gain in steps of 40*log10(2) dB
\* (about 12.04 dB), so that A = 2^gain exactly; gain is an integer <<g, 1>>
GainToA(gain) ==
  IF gain[1] >= 0 THEN << 2^(gain[1]), 1 >> ELSE << 1, 2^(-gain[1]) >>

\* lines 223-243: the biquad of one band
biquad(center_freq, gain, q, sr) ==
  LET turns == RDiv(center_freq, sr)
      alpha == RDiv(SinTurn(turns), RMul(R(2), q))
      A == GainToA(gain)
      m2cos == RMul(R(-2), CosTurn(turns))
  IN  IF RLe(Zero, gain)
      THEN [a |-> << RAdd(One, RDiv(alpha, A)), m2cos,
                     RSub(One, RDiv(alpha, A)) >>,
            b |-> << RAdd(One, RMul(alpha, A)), m2cos,
                     RSub(One, RMul(alpha, A)) >>]
      ELSE [a |-> << RAdd(One, RMul(alpha, A)), m2cos,
                     RSub(One, RMul(alpha, A)) >>,
            b |-> << RSub(One, RDiv(alpha, A)), m2cos,
                     RAdd(One, RDiv(alpha, A)) >>]

\* lines 247-248 from section k on; lfilter rejects a[0] = 0
RECURSIVE eq_cascade(_, _, _, _, _)
eq_cascade(biquads, k, x, held, loc) ==
  IF k > Len(biquads) THEN Return(x, held, loc)
  ELSE IF biquads[k].a[1] = Zero THEN Raise("ValueError", held, loc)
  ELSE eq_cascade(biquads, k + 1, lfilter(biquads[k].b, biquads[k].a, x),
                  held, loc)

\* eq_params is the flat list [f1, g1, q1, f2, g2, q2, ...]
equalizer(buf, sr, eq_params, on) ==
  IF ~on THEN Return(buf, buf, [on |-> FALSE])
  ELSE
    LET bands == Len(eq_params) \div 3
        biquads == [i \in 1..bands |->
                      biquad(eq_params[3 * (i - 1) + 1],
                             eq_params[3 * (i - 1) + 2],
                             eq_params[3 * (i - 1) + 3], sr)]
    IN  IF bands > 0 /\ sr = Zero
        THEN Raise("ZeroDivisionError", buf, [on |-> TRUE])
        ELSE eq_cascade(biquads, 1, buf, buf,
                        [on |-> TRUE, biquads |-> biquads])

Equalizer(sr, eq_params, on) ==
  Call("equalizer", [sr |-> sr, on |-> on, eq_params |-> eq_params],
       equalizer(audio, sr, eq_params, on))

\* ----------------------------------------------------------- oscillators
\* fractional part of a phase in turns (np.mod(t, 2*pi) / (2*pi))
Frac(p) == RSub(p, R(Floor(p)))

\* scipy.signal.square(2*pi*p, duty)
square(p, duty) == IF RLt(Frac(p), duty) THEN One ELSE R(-1)

\* scipy.signal.sawtooth(2*pi*p, width)
sawtooth(p, width) ==
  LET f == Frac(p)
  IN  IF RLt(f, width)
      THEN RSub(RDiv(RMul(R(2), f), width), One)
      ELSE RDiv(RSub(RAdd(width, One), RMul(R(2), f)), RSub(One, width))

\* the four waveform families, at phase p
Wave(family, p) ==
  CASE family = "sine" -> SinTurn(p)
    [] family = "square" -> square(p, Half)
    [] family = "sawtooth" -> sawtooth(p, One)
    [] family = "triangle" -> sawtooth(p, Half)

\* w(f t) + w(2 f t)/2 + ... + w(n f t)/n
RECURSIVE Stacked(_, _, _)
Stacked(family, n, p) ==
  IF n = 1 THEN Wave(family, p)
  ELSE RAdd(Stacked(family, n - 1, p),
            RDiv(Wave(family, RMul(R(n), p)), R(n)))

\* w((freq + fm_index * w(fm_freq t)) t)
Fm(family, freq, fm_index, fm_freq, t) ==
  Wave(family,
       RMul(RAdd(freq, RMul(fm_index, Wave(family, RMul(fm_freq, t)))), t))

\* line 43: t = np.linspace(0, length, int(length * sr), endpoint=False)
TimeAxis(length, sr) == Linspace(Zero, length, PyInt(RMul(length, sr)), FALSE)

\* np.linspace and np.random.uniform reject a negative count
CountOk(length, sr) == PyInt(RMul(length, sr)) >= 0

pwm_wave(freq, length, sr, duty_cycle) ==
  IF ~CountOk(length, sr) THEN Raise("ValueError", << >>, NoArgs)
  ELSE LET t == TimeAxis(length, sr)
       IN  Return([i \in 1..Len(t) |-> square(RMul(freq, t[i]), duty_cycle)],
                  << >>, NoArgs)

\* rnd is the draw of np.random.uniform(-1, 1, size)
white_noise(length, sr, rnd) ==
  IF ~CountOk(length, sr) THEN Raise("ValueError", << >>, NoArgs)
  ELSE Return(rnd, << >>, NoArgs)

oscillator_types ==
  { "sine", "square", "sawtooth", "triangle", "pwm", "noise", "sine2",
    "sawtooth2", "triangle2", "harmonic", "sawtooth3", "triangle3",
    "square3", "fm_sine", "fm_square", "fm_sawtooth", "fm_triangle" }

oscillator(freq, length, sr, osc_type, fm_index, fm_freq, rnd) ==
  IF ~CountOk(length, sr) THEN Raise("ValueError", << >>, NoArgs)
  ELSE
    LET t == TimeAxis(length, sr)
        Each(f(_)) == Return([i \in 1..Len(t) |-> f(t[i])], << >>, NoArgs)
        stack1(x) == Stacked("sine", 1, RMul(freq, x))
        sq1(x) == Stacked("square", 1, RMul(freq, x))
        saw1(x) == Stacked("sawtooth", 1, RMul(freq, x))
        tri1(x) == Stacked("triangle", 1, RMul(freq, x))
        sine2(x) == Stacked("sine", 2, RMul(freq, x))
        saw2(x) == Stacked("sawtooth", 2, RMul(freq, x))
        tri2(x) == Stacked("triangle", 2, RMul(freq, x))
        sine3(x) == Stacked("sine", 3, RMul(freq, x))
        saw3(x) == Stacked("sawtooth", 3, RMul(freq, x))
        tri3(x) == Stacked("triangle", 3, RMul(freq, x))
        sq3(x) == Stacked("square", 3, RMul(freq, x))
        fmsine(x) == Fm("sine", freq, fm_index, fm_freq, x)
        fmsq(x) == Fm("square", freq, fm_index, fm_freq, x)
        fmsaw(x) == Fm("sawtooth", freq, fm_index, fm_freq, x)
        fmtri(x) == Fm("triangle", freq, fm_index, fm_freq, x)
    IN  CASE osc_type = "sine" -> Each(stack1)
          [] osc_type = "square" -> Each(sq1)
          [] osc_type = "sawtooth" -> Each(saw1)
          [] osc_type = "triangle" -> Each(tri1)
          [] osc_type = "pwm" -> pwm_wave(freq, length, sr, Half)
          [] osc_type = "noise" -> white_noise(length, sr, rnd)
          [] osc_type = "sine2" -> Each(sine2)
          [] osc_type = "sawtooth2" -> Each(saw2)
          [] osc_type = "triangle2" -> Each(tri2)
          [] osc_type = "harmonic" -> Each(sine3)
          [] osc_type = "sawtooth3" -> Each(saw3)
          [] osc_type = "triangle3" -> Each(tri3)
          [] osc_type = "square3" -> Each(sq3)
          [] osc_type = "fm_sine" -> Each(fmsine)
          [] osc_type = "fm_square" -> Each(fmsq)
          [] osc_type = "fm_sawtooth" -> Each(fmsaw)
          [] osc_type = "fm_triangle" -> Each(fmtri)
          [] OTHER -> Raise("ValueError", << >>, NoArgs)

\* a generator call takes no buffer: the caller's buffer is left as it is
Generate(name, a, out) ==
  Call(name, a, [out EXCEPT !.held = audio])

\* the draws np.random.uniform(-1, 1, size) can return, on a two-point grid
NoiseDraws(length, sr) ==
  [1..Max(PyInt(RMul(length, sr)), 0) -> { RNeg(Half), Half }]

Oscillator(freq, length, sr, osc_type, fm_index, fm_freq) ==
  \E rnd \in (IF osc_type = "noise" THEN NoiseDraws(length, sr) ELSE { << >> }) :
    Generate("oscillator",
             [length |-> length, sr |-> sr, freq |-> freq,
              fm_index |-> fm_index, fm_freq |-> fm_freq,
              osc_type |-> osc_type],
             oscillator(freq, length, sr, osc_type, fm_index, fm_freq, rnd))

PwmWave(freq, length, sr, duty_cycle) ==
  Generate("pwm_wave",
           [length |-> length, sr |-> sr, freq |-> freq,
            duty_cycle |-> duty_cycle],
           pwm_wave(freq, length, sr, duty_cycle))

WhiteNoise(length, sr) ==
  \E rnd \in NoiseDraws(length, sr) :
    Generate("white_noise", [length |-> length, sr |-> sr],
             white_noise(length, sr, rnd))

\* ---------------------------------------------------------- specifications
\* The pipeline: any chain of at most MaxCalls stage calls, each stage
\* enabled or disabled, the returned buffer fed to the next stage.
Next ==
  \/ \E release \in { Zero, One }, on \in BOOLEAN :
       AdsrEnvelope(R(4), One, One, Zero, One, release, on)
  \/ \E sr \in { Zero, R(4) }, on \in BOOLEAN :
       FilterEnvelope(One, sr, One, One, Zero, on)
  \/ \E cutoff \in { One, R(2) }, on \in BOOLEAN :
       LowpassFilter(cutoff, One, R(4), on)
  \/ \E cutoff \in { One, R(2) }, on \in BOOLEAN :
       HighpassFilter(cutoff, One, R(4), on)
  \/ \E threshold \in { Half, R(2) }, on \in BOOLEAN :
       Compressor(threshold, R(2), Zero, Zero, on)
  \/ \E delay \in { R(-1), One }, on \in BOOLEAN :
       Reverb(One, delay, Half, on)
  \/ \E on \in BOOLEAN :
       Distortion(One, on)
  \/ \E sr \in { Zero, R(4) }, on \in BOOLEAN :
       Equalizer(sr, << One, One, One >>, on)
  \/ Feed

Spec == Init /\ [][Next]_vars

\* adsr_envelope alone, over a wider range of arguments
AdsrLengths == { R(-1), R(2), R(4), R(6) }

AdsrRates == { One, R(2) }

AdsrNext ==
  \E length \in AdsrLengths, sr \in AdsrRates,
     attack \in { Zero, Half, One, R(2) },
     decay \in { Zero, One, << 3, 2 >> },
     sustain \in { Half, One },
     release \in { R(-1), Zero, One, R(2) },
     on \in BOOLEAN :
    AdsrEnvelope(length, sr, attack, decay, sustain, release, on)

AdsrSpec == Init /\ [][AdsrNext]_vars

\* compressor alone
CompressorNext ==
  \E threshold \in { R(-1), Zero, Half, One, R(2) }, ratio \in { One, R(2) },
     attack \in { Zero, One }, release \in { Zero, One }, on \in BOOLEAN :
    Compressor(threshold, ratio, attack, release, on)

CompressorSpec == Init /\ [][CompressorNext]_vars

\* reverb alone
ReverbNext ==
  \E sr \in { R(-1), One, R(2) },
     delay \in { R(-1), RNeg(Half), Zero, Half, One, R(2) },
     decay \in { Zero, Half, One }, on \in BOOLEAN :
    Reverb(sr, delay, decay, on)

ReverbSpec == Init /\ [][ReverbNext]_vars

\* equalizer alone: up to two bands, with or without a dangling element
EqBands ==
  { << f, g, q >> : f \in { One, R(3) }, g \in { R(-2), R(-1), Zero, One, R(2) },
                    q \in { Half, One } }

EqLists ==
  { << >> } \cup { b : b \in EqBands } \cup { Append(b, One) : b \in EqBands }
    \cup { b1 \o b2 : b1 \in EqBands, b2 \in EqBands }

EqNext ==
  \E sr \in { Zero, R(4) }, eq_params \in EqLists, on \in BOOLEAN :
    Equalizer(sr, eq_params, on)

EqSpec == Init /\ [][EqNext]_vars

\* the generators alone
OscTypes == oscillator_types \cup { "organ" }

OscLengths == { R(-1), RNeg(Half), Zero, Half, One }

OscRates == { R(-2), R(-1), Zero, One, R(4) }

OscNext ==
  \/ \E freq \in { Zero, One }, length \in OscLengths, sr \in OscRates,
        osc_type \in OscTypes, fm_index \in { Zero, One } :
       Oscillator(freq, length, sr, osc_type, fm_index, One)
  \/ \E freq \in { Zero, One }, length \in OscLengths, sr \in OscRates,
        duty_cycle \in { << 1, 4 >>, Half } :
       PwmWave(freq, length, sr, duty_cycle)
  \/ \E length \in OscLengths, sr \in OscRates :
       WhiteNoise(length, sr)

OscSpec == Init /\ [][OscNext]_vars

\* ------------------------------------------------------------------ claims
IsAdsr == op = "adsr_envelope" /\ args.on

IsReverb == op = "reverb" /\ args.on

\* C1: adsr_envelope with attack = decay = release = 0, sustain = 1, enabled,
\* on a non-empty buffer returns normally and returns the input unchanged.
C1_AdsrIdentity ==
  (/\ IsAdsr
   /\ Len(before) > 0
   /\ args.attack = Zero /\ args.decay = Zero
   /\ args.sustain = One /\ args.release = Zero)
  => (pc = "returned" /\ result = before)

\* the curve the compressor is said to use: the ADSR envelope of attack and
\* release, decay 0, sustain 1, over n samples at 44100 Hz
CompressorCurve(n, attack, release) ==
  adsr_envelope([i \in 1..n |-> One], RDiv(R(n), R(44100)), R(44100),
                attack, Zero, One, release, TRUE).buf

\* C2: the enabled compressor on a buffer whose RMS exceeds threshold
\* returns audio[i] * (1 - env[i] * gain_reduction) for every i, and does
\* not end in an error.
C2_CompressorGain ==
  (op = "compressor" /\ args.on /\ RmsExceeds(before, args.threshold))
  => /\ pc = "returned"
     /\ Len(result) = Len(before)
     /\ LET env == CompressorCurve(Len(before), args.attack, args.release)
            gr == gain_reduction(RSqrt(MeanSquare(before)), args.threshold,
                                 args.ratio)
        IN  \A i \in 1..Len(before) :
              result[i] = RMul(before[i], RSub(One, RMul(env[i], gr)))

UnitImpulse(x) ==
  Len(x) >= 1 /\ x[1] = One /\ \A i \in 2..Len(x) : x[i] = Zero

RECURSIVE RPow(_, _)
RPow(p, k) == IF k = 0 THEN One ELSE RMul(p, RPow(p, k - 1))

\* C3: the enabled reverb is a feedback delay line: for delay_samples >= 1
\* and 0 < decay < 1 a unit impulse at index 0 produces an echo of amplitude
\* decay^k at every index k * delay_samples inside the buffer.
C3_ReverbFeedback ==
  (/\ IsReverb
   /\ locals.delay_samples >= 1
   /\ RLt(Zero, args.decay) /\ RLt(args.decay, One)
   /\ UnitImpulse(before))
  => /\ pc = "returned"
     /\ \A k \in 1..Len(before) :
          k * locals.delay_samples < Len(before)
            => result[k * locals.delay_samples + 1] = RPow(args.decay, k)

\* C4: reverb with decay = 0, enabled, delay >= 0: the returned buffer equals
\* the input as it was before the call (and the caller's array still holds
\* it); the call fails to return only for a negative sample rate.
C4_ReverbZeroDecay ==
  (IsReverb /\ args.decay = Zero /\ RLe(Zero, args.delay))
  => IF pc = "returned"
     THEN result = before /\ audio = before
     ELSE RLt(args.sr, Zero)

C4_Witness ==
  /\ IsReverb /\ args.decay = Zero /\ pc = "returned"
  /\ locals.delay_samples = 1
  /\ Len(before) = MaxLen /\ before[1] = One
  /\ result = before

\* C5: whenever a call to a stage ends in an error, the caller's buffer holds
\* the sample values it held before the call.
C5_ErrorLeavesBuffer == pc = "raised" => audio = before

\* C6: an enabled adsr_envelope call with attack_samples + decay_samples +
\* release_samples (after the clamps) greater than len(audio) signals an error
\* instead of returning a buffer (stated for a non-empty buffer, where the
\* ramps that overlap are there to see).
C6_DegenerateEnvelopeRaises ==
  (/\ IsAdsr
   /\ locals.total_samples > 0
   /\ locals.attack_samples + locals.decay_samples + locals.release_samples
        > locals.total_samples)
  => pc = "raised"

\* C7: oscillator (for every supported type), pwm_wave and white_noise signal
\* an error and return no buffer whenever duration <= 0 or sample_rate <= 0.
C7_GeneratorsRejectNonPositive ==
  (/\ \/ op = "oscillator" /\ args.osc_type \in oscillator_types
      \/ op = "pwm_wave"
      \/ op = "white_noise"
   /\ (RLe(args.length, Zero) \/ RLe(args.sr, Zero)))
  => pc = "raised"

\* C8: every stage call that returns yields a buffer of the length of the
\* buffer passed to it, so along a chain of calls the buffer keeps the length
\* it had at the start of the chain.
C8_LengthPreserved ==
  /\ pc = "returned" => Len(result) = Len(before) /\ Len(result) = Len(chain0)
  /\ pc = "ready" => Len(audio) = Len(chain0)

C8_Witness ==
  /\ pc = "returned" /\ calls = 2 /\ args.on
  /\ Len(result) = MaxLen
  /\ before # chain0 /\ result # before

\* C9 as stated: in an enabled adsr_envelope call the attack ramp and the
\* decay ramp are each at most a quarter of N = len(audio) samples long
\* (stated for the calls on a non-empty buffer that return, whose ramps were
\* written).
C9_QuarterOfBuffer ==
  (IsAdsr /\ pc = "returned" /\ locals.total_samples > 0)
         => /\ 4 * locals.attack_samples <= locals.total_samples
            /\ 4 * locals.decay_samples <= locals.total_samples

\* C9 as amended: the attack ramp and the decay ramp are each at most
\* round(length * sr / 4) samples long, length being the length argument
\* (and at most the rounded requested time).
C9_QuarterOfLengthArg ==
  IsAdsr =>
    LET cap == NpRound(RDiv(RMul(args.length, args.sr), R(4)))
    IN  /\ locals.attack_samples <= cap
        /\ locals.decay_samples <= cap
        /\ locals.attack_samples <= NpRound(RMul(args.attack, args.sr))
        /\ locals.decay_samples <= NpRound(RMul(args.decay, args.sr))

C9_Witness ==
  /\ IsAdsr /\ pc = "returned"
  /\ NpRound(RMul(args.attack, args.sr)) > locals.max_attack_samples
  /\ locals.attack_samples = locals.max_attack_samples
  /\ 4 * locals.attack_samples > locals.total_samples
  /\ locals.total_samples > 0

\* the flat list is the two bands (f, +g, Q), (f, -g, Q) with g > 0
MirrorPair(p) ==
  /\ Len(p) = 6
  /\ p[4] = p[1] /\ p[6] = p[3]
  /\ RLt(Zero, p[2]) /\ p[5] = RNeg(p[2])

\* C10: the band (f, -g, Q) has feedforward coefficients equal to the
\* feedback coefficients of the band (f, +g, Q) and feedback coefficients
\* equal to its feedforward coefficients, so the two bands cascaded return
\* the input unchanged.
C10_MirroredBands ==
  (/\ op = "equalizer" /\ args.on /\ pc = "returned"
   /\ MirrorPair(args.eq_params))
  => /\ locals.biquads[2].b = locals.biquads[1].a
     /\ locals.biquads[2].a = locals.biquads[1].b
     /\ result = before

====
